---------------------------- MODULE Spec2Model ----------------------------
(***************************************************************************)
(* Request authentication and integrity layer of test-serviceability:      *)
(*   - the envelope protocol between the checkout extension's hmac-utils   *)
(*     (createSignedRequest, verifyHMACResponse, fetchWithHMAC) and the    *)
(*     Express backend (verifyHMACMiddleware, signResponse);               *)
(*   - the App Proxy signature check and the webhook check of web/index.js.*)
(*                                                                         *)
(* Texts (header values, JSON bodies, canonical messages) are sequences of *)
(* one-character strings, so that JSON.stringify, JSON.parse, parseInt and *)
(* the sorted key=value concatenation are computed character by character. *)
(* HMAC-SHA256 is idealised: the digest of (key, message) is the pair      *)
(* itself, so two digests are equal exactly when key and message are.      *)
(***************************************************************************)
EXTENDS Integers, Sequences, FiniteSets, TLC

(***************************************************************************)
(* Bounds of the model.                                                    *)
(***************************************************************************)
\* The instant the client reads Date.now() (ms; TLC integers are 32 bit).
T0 == 1700000

(***************************************************************************)
(* JavaScript values.  Every value is a record of one shape:               *)
(*   t: "undefined" | "null" | "bool" | "num" | "str" | "obj"              *)
(*   n: the number (or 1/0 for true/false), s: the string's characters,    *)
(*   f: the object's own properties in insertion order, each [k, v] with v *)
(*      a primitive [t, n, s].                                             *)
(***************************************************************************)
JsUndefined == [t |-> "undefined", n |-> 0, s |-> <<>>, f |-> <<>>]
JsNull == [t |-> "null", n |-> 0, s |-> <<>>, f |-> <<>>]
JsBool(b) == [t |-> "bool", n |-> IF b THEN 1 ELSE 0, s |-> <<>>, f |-> <<>>]
JsNum(k) == [t |-> "num", n |-> k, s |-> <<>>, f |-> <<>>]
JsStr(cs) == [t |-> "str", n |-> 0, s |-> cs, f |-> <<>>]
JsObj(props) == [t |-> "obj", n |-> 0, s |-> <<>>, f |-> props]
Prim(v) == [t |-> v.t, n |-> v.n, s |-> v.s]
Prop(key, v) == [k |-> key, v |-> Prim(v)]

\* ToBoolean: what `!x` and `a && b` test.
Truthy(v) ==
    CASE v.t = "undefined" -> FALSE
      [] v.t = "null" -> FALSE
      [] v.t = "bool" -> v.n = 1
      [] v.t = "num" -> v.n # 0
      [] v.t = "str" -> v.s # <<>>
      [] OTHER -> TRUE

\* ToBoolean of a string that may be absent (a header, a query parameter).
Undefined == <<"undefined">>
TruthyStr(cs) == cs # Undefined /\ cs # <<>>

(***************************************************************************)
(* Number <-> decimal text.                                                *)
(***************************************************************************)
DigitChars == <<"0", "1", "2", "3", "4", "5", "6", "7", "8", "9">>
IsDigit(c) == \E i \in 1..10 : DigitChars[i] = c
DigitVal(c) == (CHOOSE i \in 1..10 : DigitChars[i] = c) - 1

RECURSIVE NatToString(_)
NatToString(k) ==
    IF k < 10 THEN <<DigitChars[k + 1]>>
    ELSE NatToString(k \div 10) \o <<DigitChars[(k % 10) + 1]>>

\* Number.prototype.toString for an integer.
toString(k) == IF k < 0 THEN <<"-">> \o NatToString(-k) ELSE NatToString(k)

IsWs(c) == c = " "

RECURSIVE SkipWs(_)
SkipWs(cs) == IF cs # <<>> /\ IsWs(Head(cs)) THEN SkipWs(Tail(cs)) ELSE cs

\* The longest prefix of digits of cs.
RECURSIVE DigitPrefix(_)
DigitPrefix(cs) ==
    IF cs # <<>> /\ IsDigit(Head(cs)) THEN <<Head(cs)>> \o DigitPrefix(Tail(cs))
    ELSE <<>>

RECURSIVE DigitsValue(_, _)
DigitsValue(ds, acc) ==
    IF ds = <<>> THEN acc ELSE DigitsValue(Tail(ds), 10 * acc + DigitVal(Head(ds)))

\* parseInt(cs, 10): leading white space skipped, an optional sign, then the
\* longest run of digits; what follows the digits is ignored; no digit: NaN.
NaN == [nan |-> TRUE, v |-> 0]
Num(k) == [nan |-> FALSE, v |-> k]
parseInt(cs) ==
    LET t == SkipWs(cs)
        neg == t # <<>> /\ Head(t) = "-"
        u == IF t # <<>> /\ Head(t) \in {"-", "+"} THEN Tail(t) ELSE t
        ds == DigitPrefix(u)
    IN IF ds = <<>> THEN NaN
       ELSE Num(IF neg THEN -DigitsValue(ds, 0) ELSE DigitsValue(ds, 0))

\* a - b, Math.abs(x) and x > y on numbers that may be NaN.
Minus(a, b) == IF a.nan \/ b.nan THEN NaN ELSE Num(a.v - b.v)
MathAbs(x) == IF x.nan THEN NaN ELSE Num(IF x.v < 0 THEN -x.v ELSE x.v)
Greater(x, y) == ~x.nan /\ ~y.nan /\ x.v > y.v

(***************************************************************************)
(* JSON.stringify.                                                         *)
(***************************************************************************)
RECURSIVE Escape(_)
Escape(cs) ==
    IF cs = <<>> THEN <<>>
    ELSE (IF Head(cs) \in {"\"", "\\"} THEN <<"\\", Head(cs)>> ELSE <<Head(cs)>>)
         \o Escape(Tail(cs))

Quote(cs) == <<"\"">> \o Escape(cs) \o <<"\"">>

StringifyPrim(v) ==
    CASE v.t = "null" -> <<"n", "u", "l", "l">>
      [] v.t = "bool" -> IF v.n = 1 THEN <<"t", "r", "u", "e">>
                         ELSE <<"f", "a", "l", "s", "e">>
      [] v.t = "num" -> toString(v.n)
      [] v.t = "str" -> Quote(v.s)

\* The members of an object; a property whose value is undefined is left out.
RECURSIVE StringifyProps(_, _)
StringifyProps(props, first) ==
    IF props = <<>> THEN <<>>
    ELSE LET p == Head(props)
         IN IF p.v.t = "undefined" THEN StringifyProps(Tail(props), first)
            ELSE (IF first THEN <<>> ELSE <<",">>)
                 \o Quote(p.k) \o <<":">> \o StringifyPrim(p.v)
                 \o StringifyProps(Tail(props), FALSE)

Stringify(v) ==
    IF v.t = "obj" THEN <<"{">> \o StringifyProps(v.f, TRUE) \o <<"}">>
    ELSE StringifyPrim(v)

(***************************************************************************)
(* JSON.parse, for the fragment of JSON the model's texts use: white space, *)
(* an object whose members are primitives, strings with the escapes \" and *)
(* \\, non-negative integers without exponent, true, false and null.       *)
(* Each parser returns [ok, v, rest].                                      *)
(***************************************************************************)
StartsWith(cs, pre) == Len(cs) >= Len(pre) /\ SubSeq(cs, 1, Len(pre)) = pre
Drop(cs, k) == SubSeq(cs, k + 1, Len(cs))
ParseFail == [ok |-> FALSE, v |-> JsUndefined, rest |-> <<>>]

\* The characters of a string literal after its opening quote.
RECURSIVE ParseStringBody(_, _)
ParseStringBody(cs, acc) ==
    IF cs = <<>> THEN ParseFail
    ELSE IF Head(cs) = "\"" THEN [ok |-> TRUE, v |-> JsStr(acc), rest |-> Tail(cs)]
    ELSE IF Head(cs) = "\\"
         THEN IF Len(cs) >= 2 /\ cs[2] \in {"\"", "\\"}
              THEN ParseStringBody(Drop(cs, 2), Append(acc, cs[2]))
              ELSE ParseFail
    ELSE ParseStringBody(Tail(cs), Append(acc, Head(cs)))

ParseString(cs) ==
    IF cs # <<>> /\ Head(cs) = "\"" THEN ParseStringBody(Tail(cs), <<>>)
    ELSE ParseFail

\* A JSON number: 0, or digits not starting with 0.
ParseNumber(cs) ==
    LET ds == DigitPrefix(cs)
    IN IF ds = <<>> \/ (Len(ds) > 1 /\ Head(ds) = "0") THEN ParseFail
       ELSE [ok |-> TRUE, v |-> JsNum(DigitsValue(ds, 0)), rest |-> Drop(cs, Len(ds))]

ParsePrim(cs) ==
    CASE cs = <<>> -> ParseFail
      [] cs # <<>> /\ Head(cs) = "\"" -> ParseString(cs)
      [] cs # <<>> /\ IsDigit(Head(cs)) -> ParseNumber(cs)
      [] StartsWith(cs, <<"t", "r", "u", "e">>) ->
            [ok |-> TRUE, v |-> JsBool(TRUE), rest |-> Drop(cs, 4)]
      [] StartsWith(cs, <<"f", "a", "l", "s", "e">>) ->
            [ok |-> TRUE, v |-> JsBool(FALSE), rest |-> Drop(cs, 5)]
      [] StartsWith(cs, <<"n", "u", "l", "l">>) ->
            [ok |-> TRUE, v |-> JsNull, rest |-> Drop(cs, 4)]
      [] OTHER -> ParseFail

\* obj[key] = v: a repeated key keeps its place and takes the last value.
RECURSIVE SetProp(_, _, _)
SetProp(props, key, v) ==
    IF props = <<>> THEN <<Prop(key, v)>>
    ELSE IF Head(props).k = key THEN <<Prop(key, v)>> \o Tail(props)
    ELSE <<Head(props)>> \o SetProp(Tail(props), key, v)

\* The members of an object, from the first key to the closing brace.
RECURSIVE ParseMembers(_, _)
ParseMembers(cs, acc) ==
    LET key == ParseString(SkipWs(cs))
        colon == SkipWs(key.rest)
        val == ParsePrim(SkipWs(Drop(colon, 1)))
        after == SkipWs(val.rest)
    IN IF ~key.ok \/ colon = <<>> \/ Head(colon) # ":" THEN ParseFail
       ELSE IF ~val.ok \/ after = <<>> THEN ParseFail
       ELSE IF Head(after) = "}"
            THEN [ok |-> TRUE, v |-> JsObj(SetProp(acc, key.v.s, val.v)),
                  rest |-> Tail(after)]
       ELSE IF Head(after) = ","
            THEN ParseMembers(Tail(after), SetProp(acc, key.v.s, val.v))
       ELSE ParseFail

ParseValue(cs) ==
    IF cs # <<>> /\ Head(cs) = "{"
    THEN LET inner == SkipWs(Tail(cs))
         IN IF inner # <<>> /\ Head(inner) = "}"
            THEN [ok |-> TRUE, v |-> JsObj(<<>>), rest |-> Tail(inner)]
            ELSE ParseMembers(inner, <<>>)
    ELSE ParsePrim(cs)

\* JSON.parse(text): [ok, v]; ok = FALSE is the SyntaxError it throws.
JSONParse(text) ==
    LET r == ParseValue(SkipWs(text))
    IN IF r.ok /\ SkipWs(r.rest) = <<>> THEN [ok |-> TRUE, v |-> r.v]
       ELSE [ok |-> FALSE, v |-> JsUndefined]

(***************************************************************************)
(* The HMAC primitive.  A signature travelling in a header, a query        *)
(* parameter or a JSON field is a string; the model keeps how it was made: *)
(*   enc = "hex":    digest.toString('hex') of HMAC-SHA256(key, msg)       *)
(*   enc = "base64": the base64 rendering of the same digest               *)
(*   enc = "lit":    the literal characters lit (no digest's rendering)    *)
(*   enc = "undefined": no string at all (header or field absent)          *)
(***************************************************************************)
HexLen == 64
Base64Len == 44
Hex(digestKey, digestMsg) ==
    [enc |-> "hex", key |-> digestKey, msg |-> digestMsg, lit |-> <<>>]
Base64(digestKey, digestMsg) ==
    [enc |-> "base64", key |-> digestKey, msg |-> digestMsg, lit |-> <<>>]
Lit(cs) == [enc |-> "lit", key |-> "", msg |-> <<>>, lit |-> cs]
NoString == [enc |-> "undefined", key |-> "", msg |-> <<>>, lit |-> <<>>]

TruthySig(sig) == sig.enc # "undefined" /\ ~(sig.enc = "lit" /\ sig.lit = <<>>)

\* Buffer.from(string).length
ByteLength(sig) ==
    CASE sig.enc = "hex" -> HexLen
      [] sig.enc = "base64" -> Base64Len
      [] OTHER -> Len(sig.lit)

\* crypto.timingSafeEqual(Buffer.from(a), Buffer.from(b)): a RangeError when
\* the byte lengths differ, else whether the bytes are equal.
timingSafeEqual(a, b) ==
    IF ByteLength(a) # ByteLength(b) THEN [threw |-> TRUE, eq |-> FALSE]
    ELSE [threw |-> FALSE, eq |-> (a = b)]

\* The canonical message of the envelope protocol: JSON.stringify of
\* {<field>: value, timestamp: ts}, field being "body" or "data".  A value of
\* undefined leaves the field out.
BodyField == <<"b", "o", "d", "y">>
DataField == <<"d", "a", "t", "a">>
TimestampField == <<"t", "i", "m", "e", "s", "t", "a", "m", "p">>
\* Variant of the canonical message that names the payload "body" in both
\* directions (sensitivity of C19).
StringifyPayloadBodyOnly(field, value, ts) ==
    <<"{">>
    \o (IF value.t = "undefined" THEN <<>>
        ELSE Quote(<<"b", "o", "d", "y">>) \o <<":">> \o Stringify(value) \o <<",">>)
    \o Quote(<<"t", "i", "m", "e", "s", "t", "a", "m", "p">>) \o <<":">> \o Quote(ts)
    \o <<"}">>

StringifyPayload(field, value, ts) ==
    <<"{">>
    \o (IF value.t = "undefined" THEN <<>>
        ELSE Quote(field) \o <<":">> \o Stringify(value) \o <<",">>)
    \o Quote(TimestampField) \o <<":">> \o Quote(ts) \o <<"}">>

\* Variant of generateHMAC that signs with a fixed key, whatever secret it is
\* given (sensitivity of C4).
generateHMACFixedKey(field, value, ts, secret) ==
    Hex("dummy-hmac-secret-key-for-development-only-replace-in-production",
        StringifyPayload(field, value, ts))

\* hmac-utils.js (server): generateHMAC(payload, secret), payload an object.
generateHMAC(field, value, ts, secret) ==
    Hex(secret, StringifyPayload(field, value, ts))

\* Variant of verifyHMAC that never compares (sensitivity of C3).
verifyHMACNoCompare(field, value, ts, signature, secret) ==
    [threw |-> FALSE, eq |-> TRUE]

\* hmac-utils.js (server): verifyHMAC(payload, signature, secret).
verifyHMAC(field, value, ts, signature, secret) ==
    timingSafeEqual(signature, generateHMAC(field, value, ts, secret))

(***************************************************************************)
(* verifyHMACMiddleware(secret)(req, res, next) at Date.now() = currentTime.*)
(* req: [method, sig, ts, body] with body = req.body as parsed.  The       *)
(* outcome is either next() or one response sent by the middleware.        *)
(***************************************************************************)
MAX_TIME_DIFF == 5 * 60 * 1000

\* fault: an exception left the middleware instead of an outcome.
\* compare: the comparison the verifier applied to the candidate and the
\* expected signature it computed ("none": it returned before computing one).
CallNext ==
    [next |-> TRUE, status |-> 0, error |-> "", message |-> "", fault |-> FALSE,
     compare |-> "none"]
Reject(code, err, msg) ==
    [next |-> FALSE, status |-> code, error |-> err, message |-> msg,
     fault |-> FALSE, compare |-> "none"]
\* The outcome v, reached through verifyHMAC's crypto.timingSafeEqual.
Compared(v) == [v EXCEPT !.compare = "timingSafeEqual"]
MissingHeaders ==
    Reject(401, "HMAC authentication required",
           "Missing X-HMAC-Signature or X-HMAC-Timestamp header")
RequestExpired ==
    Reject(401, "Request expired", "Timestamp is too old or in the future")
InvalidSignature ==
    Compared(Reject(401, "Invalid HMAC signature",
                    "Request signature verification failed"))
VerificationError ==
    Compared(Reject(500, "HMAC verification error",
                    "Input buffers must have the same byte length"))

\* Variant of the replay-window test that rejects the edge of the window
\* (sensitivity of C5).
TooOldAtEdge(ts, currentTime) ==
    LET requestTime == parseInt(ts)
        timeDiff == MathAbs(Minus(Num(currentTime), requestTime))
    IN ~timeDiff.nan /\ timeDiff.v >= 5 * 60 * 1000

\* The replay-window test of both verifiers: timeDiff > MAX_TIME_DIFF.
TooOld(ts, currentTime) ==
    LET requestTime == parseInt(ts)
        timeDiff == MathAbs(Minus(Num(currentTime), requestTime))
    IN Greater(timeDiff, Num(MAX_TIME_DIFF))

\* Variant of verifyHMACMiddleware without the try/catch around verifyHMAC
\* (sensitivity of C18).
verifyHMACMiddlewareNoCatch(secret, method, sig, ts, body, currentTime) ==
    IF method = "GET" THEN CallNext
    ELSE IF ~TruthySig(sig) \/ ~TruthyStr(ts) THEN MissingHeaders
    ELSE IF TooOld(ts, currentTime) THEN RequestExpired
    ELSE LET r == verifyHMAC(BodyField, body, ts, sig, secret)
         IN IF r.threw
            THEN [next |-> FALSE, status |-> 0, error |-> "", message |-> "",
                  fault |-> TRUE, compare |-> "timingSafeEqual"]
            ELSE IF ~r.eq THEN InvalidSignature
            ELSE Compared(CallNext)

\* Variant of verifyHMACMiddleware that verifies the signature before it
\* looks at the window (sensitivity of C26).
verifyHMACMiddlewareSignatureFirst(secret, method, sig, ts, body, currentTime) ==
    IF method = "GET" THEN CallNext
    ELSE IF ~TruthySig(sig) \/ ~TruthyStr(ts) THEN MissingHeaders
    ELSE LET r == verifyHMAC(BodyField, body, ts, sig, secret)
         IN IF r.threw THEN VerificationError
            ELSE IF ~r.eq THEN InvalidSignature
            ELSE IF TooOld(ts, currentTime) THEN Compared(RequestExpired)
            ELSE Compared(CallNext)

verifyHMACMiddleware(secret, method, sig, ts, body, currentTime) ==
    IF method = "GET" THEN CallNext
    ELSE IF ~TruthySig(sig) \/ ~TruthyStr(ts) THEN MissingHeaders
    ELSE IF TooOld(ts, currentTime) THEN RequestExpired
    ELSE LET r == verifyHMAC(BodyField, body, ts, sig, secret)
         IN IF r.threw THEN VerificationError
            ELSE IF ~r.eq THEN InvalidSignature
            ELSE Compared(CallNext)

(***************************************************************************)
(* app.use(express.json()): the body parser in front of the routes.  In    *)
(* its default strict mode it accepts only a text whose first character    *)
(* after white space is { or [ ; anything else, and any text JSON.parse    *)
(* rejects, ends the request with 400 before a middleware runs.  A request *)
(* without a body gets req.body = {}.                                      *)
(***************************************************************************)
ExpressJson(text) ==
    IF text = Undefined THEN [ok |-> TRUE, v |-> JsObj(<<>>)]
    ELSE LET first == SkipWs(text)
         IN IF first = <<>> \/ Head(first) \notin {"{", "["}
            THEN [ok |-> FALSE, v |-> JsUndefined]
            ELSE JSONParse(text)

\* The Content-Type header values of the requests.  express.json() reads a
\* body only under application/json; under any other type it leaves the body
\* unread and the request goes on.
ApplicationJson == "application/json"
TextPlain == "text/plain;charset=UTF-8"
BodyParsed(r) ==
    IF r.ctype = ApplicationJson THEN ExpressJson(r.body)
    ELSE [ok |-> TRUE, v |-> JsObj(<<>>)]

(***************************************************************************)
(* hmac-utils.js (client).                                                 *)
(***************************************************************************)
HMAC_SECRET == "dummy-hmac-secret-key-for-development-only-replace-in-production"

\* createSignedRequest(requestData) at Date.now() = t: the value handed to
\* fetch, whose body fetchWithHMAC then sends as JSON.stringify(body).
\* Variant of createSignedRequest that signs {data, timestamp}, the response
\* path's field name (sensitivity of C1).
createSignedRequestDataField(requestData, t) ==
    LET timestamp == toString(t)
        signature == Hex(HMAC_SECRET, StringifyPayload(DataField, requestData, timestamp))
    IN [method |-> "POST", ctype |-> ApplicationJson, sig |-> signature,
        ts |-> timestamp, body |-> Stringify(requestData)]
createSignedRequest(requestData, t) ==
    LET timestamp == toString(t)
        signature == Hex(HMAC_SECRET, StringifyPayload(BodyField, requestData, timestamp))
    IN [method |-> "POST", ctype |-> ApplicationJson, sig |-> signature,
        ts |-> timestamp, body |-> Stringify(requestData)]

\* hmac-utils.js (client): the request fetchWithHMAC(url, options) hands to
\* fetch at Date.now() = t.  options.body is a JSON text or is absent;
\* options.method absent (NoMethod) means GET.  Only a POST with a truthy
\* body goes through createSignedRequest; every other request leaves as the
\* caller wrote it, and fetch gives a string body the Content-Type text/plain.
NoMethod == ""
fetchWithHMACRequest(method, body, t) ==
    IF method = "POST" /\ TruthyStr(body)
    THEN createSignedRequest(JSONParse(body).v, t)
    ELSE [method |-> IF method = NoMethod THEN "GET" ELSE method,
          ctype |-> IF body = Undefined THEN "" ELSE TextPlain,
          sig |-> NoString, ts |-> Undefined, body |-> body]

\* hmac-utils.js (client): generateHMAC(payload), payload an object.
generateHMACClient(field, value, ts) ==
    Hex(HMAC_SECRET, StringifyPayload(field, value, ts))

\* hmac-utils.js (server): signResponse(data, secret) at Date.now() = t, and
\* the JSON text res.json() sends: the data member as text, the hmac member's
\* two strings.
signResponse(data, secret, t) ==
    LET timestamp == toString(t)
        signature == generateHMAC(DataField, data, timestamp, secret)
    IN [hmac |-> TRUE,
        data |-> IF data.t = "undefined" THEN Undefined ELSE Stringify(data),
        sig |-> signature, ts |-> timestamp]

\* response.json() on the client: the data member as a value.
ResponseData(dataText) ==
    IF dataText = Undefined THEN JsUndefined ELSE JSONParse(dataText).v

\* hmac-utils.js (client): verifyHMACResponse(response) at Date.now() =
\* currentTime; hasHmac: response.hmac is an object, data: response.data.
Invalid(err) ==
    [isValid |-> FALSE, data |-> JsNull, error |-> err, compare |-> "none"]
verifyHMACResponse(hasHmac, data, signature, timestamp, currentTime) ==
    IF ~hasHmac \/ ~Truthy(data) THEN Invalid("Missing HMAC data in response")
    ELSE IF ~TruthySig(signature) \/ ~TruthyStr(timestamp)
         THEN Invalid("Invalid HMAC structure")
    ELSE IF TooOld(timestamp, currentTime)
         THEN Invalid("Response timestamp is too old or in the future")
    ELSE IF signature # generateHMACClient(DataField, data, timestamp)
         THEN [Invalid("HMAC signature verification failed") EXCEPT !.compare = "!=="]
    ELSE [isValid |-> TRUE, data |-> data, error |-> "null", compare |-> "!=="]

\* obj[key], undefined when obj has no such property.
RECURSIVE GetProp(_, _)
GetProp(props, key) ==
    IF props = <<>> THEN JsUndefined
    ELSE IF Head(props).k = key
         THEN [t |-> Head(props).v.t, n |-> Head(props).v.n, s |-> Head(props).v.s,
               f |-> <<>>]
    ELSE GetProp(Tail(props), key)

\* The POST /api/check-serviceability handler's responseData for req.body:
\* serviceable = !postalCode?.startsWith('999'), and postalCode echoed (the
\* message, city and timestamp fields are left out).  startsWith on a value
\* that is neither a string nor null/undefined throws: the catch branch
\* answers 500 with {serviceable: false}.
PostalCode == <<"p", "o", "s", "t", "a", "l", "C", "o", "d", "e">>
Serviceable == <<"s", "e", "r", "v", "i", "c", "e", "a", "b", "l", "e">>
Nines == <<"9", "9", "9">>
CheckServiceability(body) ==
    LET postalCode == GetProp(body.f, PostalCode)
    IN IF postalCode.t \in {"undefined", "null"}
       THEN [status |-> 200,
             data |-> JsObj(<<Prop(Serviceable, JsBool(TRUE)),
                              Prop(PostalCode, postalCode)>>)]
       ELSE IF postalCode.t = "str"
       THEN [status |-> 200,
             data |-> JsObj(<<Prop(Serviceable, JsBool(~StartsWith(postalCode.s, Nines))),
                              Prop(PostalCode, postalCode)>>)]
       ELSE [status |-> 500,
             data |-> JsObj(<<Prop(Serviceable, JsBool(FALSE))>>)]


(***************************************************************************)
(* web/index.js: the App Proxy signature check.                            *)
(*                                                                         *)
(* req.query is modelled as the signature parameter (a string, NoString    *)
(* when the query has none) and the other parameters, a sequence of [k, v] *)
(* with distinct keys in the order the URL gave them (the order of         *)
(* Object.keys).                                                           *)
(***************************************************************************)
\* The characters of the model's parameter names and values, in code order.
AsciiChars ==
    <<"0", "1", "2", "3", "4", "5", "6", "7", "8", "9", "=", "_",
      "a", "b", "c", "d", "e", "f", "g", "h", "i", "j", "k", "l", "m",
      "n", "o", "p", "q", "r", "s", "t", "u", "v", "w", "x", "y", "z">>
CharCode(c) == CHOOSE i \in 1..Len(AsciiChars) : AsciiChars[i] = c

\* a sorts before b in Array.prototype.sort()'s default (code unit) order.
RECURSIVE StrLess(_, _)
StrLess(a, b) ==
    IF b = <<>> THEN FALSE
    ELSE IF a = <<>> THEN TRUE
    ELSE IF Head(a) = Head(b) THEN StrLess(Tail(a), Tail(b))
    ELSE CharCode(Head(a)) < CharCode(Head(b))

\* keys.sort(): insertion of each key into the sorted rest.
RECURSIVE InsertSorted(_, _)
InsertSorted(k, sorted) ==
    IF sorted = <<>> THEN <<k>>
    ELSE IF StrLess(Head(sorted), k) THEN <<Head(sorted)>> \o InsertSorted(k, Tail(sorted))
    ELSE <<k>> \o sorted

\* Variant of keys.sort() that leaves the keys in the order of the query
\* (sensitivity of C11).
SortKeysUnsorted(keys) == keys

RECURSIVE SortKeys(_)
SortKeys(keys) ==
    IF keys = <<>> THEN <<>> ELSE InsertSorted(Head(keys), SortKeys(Tail(keys)))

ObjectKeys(params) == [i \in 1..Len(params) |-> params[i].k]

\* rest[k]; Undefined when the query has no such parameter.
RECURSIVE GetParam(_, _)
GetParam(params, key) ==
    IF params = <<>> THEN Undefined
    ELSE IF Head(params).k = key THEN Head(params).v
    ELSE GetParam(Tail(params), key)

\* Object.keys(rest).sort().map((k) => `${k}=${rest[k]}`).join('')
RECURSIVE JoinPairs(_, _)
JoinPairs(keys, params) ==
    IF keys = <<>> THEN <<>>
    ELSE Head(keys) \o <<"=">> \o GetParam(params, Head(keys))
         \o JoinPairs(Tail(keys), params)

SortedConcat(params) == JoinPairs(SortKeys(ObjectKeys(params)), params)

\* Variant of verifyAppProxy that only looks for a signature (sensitivity of
\* C10).
verifyAppProxyPresenceOnly(secret, signature, params) == TruthySig(signature)

\* Variant of verifyAppProxy that also wants a timestamp parameter within
\* 300000 ms of the instant T0 (sensitivity of C24).
verifyAppProxyFresh(secret, signature, params) ==
    /\ TruthySig(signature)
    /\ signature = Hex(secret, SortedConcat(params))
    /\ TruthyStr(GetParam(params, <<"t", "i", "m", "e", "s", "t", "a", "m", "p">>))
    /\ ~TooOld(GetParam(params, <<"t", "i", "m", "e", "s", "t", "a", "m", "p">>), T0)

\* verifyAppProxy(req) with SHOPIFY_API_SECRET = secret.
verifyAppProxy(secret, signature, params) ==
    IF ~TruthySig(signature) THEN FALSE
    ELSE signature = Hex(secret, SortedConcat(params))

Shop == <<"s", "h", "o", "p">>
TimestampParam == <<"t", "i", "m", "e", "s", "t", "a", "m", "p">>

\* What the /proxy middleware does with a request: the 401 it sends, or
\* req.shopDomain set and next().
NoProxyOutcome ==
    [next |-> FALSE, status |-> 0, error |-> "", shopDomain |-> Undefined,
     receivedShop |-> Undefined, receivedSignature |-> NoString,
     hasTimestamp |-> FALSE, allParams |-> <<>>, compare |-> "none"]

\* Variant of the /proxy middleware that sets req.shopDomain before it
\* verifies (sensitivity of C9).
ProxyMiddlewareShopFirst(secret, signature, params) ==
    [next |-> TruthySig(signature) /\ signature = Hex(secret, SortedConcat(params)),
     status |-> IF TruthySig(signature) /\ signature = Hex(secret, SortedConcat(params))
                THEN 0 ELSE 401,
     error |-> IF TruthySig(signature) /\ signature = Hex(secret, SortedConcat(params))
               THEN "" ELSE "Invalid app proxy signature",
     shopDomain |-> GetParam(params, Shop),
     receivedShop |-> Undefined, receivedSignature |-> signature,
     hasTimestamp |-> FALSE, allParams |-> <<>>,
     compare |-> IF TruthySig(signature) THEN "===" ELSE "none"]

ProxyMiddleware(secret, signature, params) ==
    IF ~verifyAppProxy(secret, signature, params)
    THEN [next |-> FALSE, status |-> 401, error |-> "Invalid app proxy signature",
          shopDomain |-> Undefined,
          receivedShop |-> GetParam(params, Shop),
          receivedSignature |-> signature,
          hasTimestamp |-> TruthyStr(GetParam(params, TimestampParam)),
          allParams |-> (IF signature = NoString THEN <<>>
                         ELSE <<<<"s", "i", "g", "n", "a", "t", "u", "r", "e">>>>)
                        \o ObjectKeys(params),
          compare |-> IF TruthySig(signature) THEN "===" ELSE "none"]
    ELSE [next |-> TRUE, status |-> 0, error |-> "",
          shopDomain |-> GetParam(params, Shop),
          receivedShop |-> Undefined, receivedSignature |-> NoString,
          hasTimestamp |-> FALSE, allParams |-> <<>>, compare |-> "==="]

(***************************************************************************)
(* web/index.js: verifyShopifyWebhook(secret)(req, res, next).             *)
(* hmacHeader: req.get("X-Shopify-Hmac-Sha256"); rawBody: req.body as      *)
(* express.raw() left it, the text of the Buffer, or Undefined when the    *)
(* request had no body to read (req.body is then no Buffer and             *)
(* hmac.update(rawBody) throws a TypeError).  The outcome is next() with   *)
(* req.body = body, or the response res.status(status).send(send).         *)
(***************************************************************************)
NoHookOutcome ==
    [next |-> FALSE, status |-> 0, send |-> "", body |-> JsUndefined,
     fault |-> FALSE, compare |-> "none"]
HookReject(code, text) ==
    [next |-> FALSE, status |-> code, send |-> text, body |-> JsUndefined,
     fault |-> FALSE, compare |-> "none"]
Unauthorized == HookReject(401, "Unauthorized")
InvalidWebhook == HookReject(400, "Invalid Webhook")

\* Variant of verifyShopifyWebhook that parses the body and calls next()
\* before it compares (sensitivity of C13).
verifyShopifyWebhookParseFirst(secret, hmacHeader, rawBody) ==
    IF ~TruthySig(hmacHeader) THEN Unauthorized
    ELSE IF rawBody = Undefined THEN InvalidWebhook
    ELSE IF ~JSONParse(rawBody).ok THEN InvalidWebhook
    ELSE [next |-> TRUE, status |-> 0, send |-> "",
          body |-> JSONParse(rawBody).v, fault |-> FALSE, compare |-> "none"]

\* Variant of verifyShopifyWebhook that renders its digest in hex
\* (sensitivity of C14).
verifyShopifyWebhookHexDigest(secret, hmacHeader, rawBody) ==
    IF ~TruthySig(hmacHeader) THEN Unauthorized
    ELSE IF rawBody = Undefined THEN InvalidWebhook
    ELSE LET generatedHash == Hex(secret, rawBody)
             r == timingSafeEqual(generatedHash, hmacHeader)
         IN IF r.threw THEN Compared(InvalidWebhook)
            ELSE IF ~r.eq THEN Compared(Unauthorized)
            ELSE LET parsed == JSONParse(rawBody)
                 IN IF ~parsed.ok THEN Compared(InvalidWebhook)
                    ELSE [next |-> TRUE, status |-> 0, send |-> "",
                          body |-> parsed.v, fault |-> FALSE,
                          compare |-> "timingSafeEqual"]

\* Variant of verifyShopifyWebhook that hands an undecodable body on as an
\* empty object (sensitivity of C25).
verifyShopifyWebhookLenient(secret, hmacHeader, rawBody) ==
    IF ~TruthySig(hmacHeader) THEN Unauthorized
    ELSE IF rawBody = Undefined THEN InvalidWebhook
    ELSE LET generatedHash == Base64(secret, rawBody)
             r == timingSafeEqual(generatedHash, hmacHeader)
         IN IF r.threw THEN Compared(InvalidWebhook)
            ELSE IF ~r.eq THEN Compared(Unauthorized)
            ELSE LET parsed == JSONParse(rawBody)
                 IN [next |-> TRUE, status |-> 0, send |-> "",
                     body |-> IF parsed.ok THEN parsed.v ELSE JsObj(<<>>),
                     fault |-> FALSE, compare |-> "timingSafeEqual"]

verifyShopifyWebhook(secret, hmacHeader, rawBody) ==
    IF ~TruthySig(hmacHeader) THEN Unauthorized
    ELSE IF rawBody = Undefined THEN InvalidWebhook
    ELSE LET generatedHash == Base64(secret, rawBody)
             r == timingSafeEqual(generatedHash, hmacHeader)
         IN IF r.threw THEN Compared(InvalidWebhook)
            ELSE IF ~r.eq THEN Compared(Unauthorized)
            ELSE LET parsed == JSONParse(rawBody)
                 IN IF ~parsed.ok THEN Compared(InvalidWebhook)
                    ELSE [next |-> TRUE, status |-> 0, send |-> "",
                          body |-> parsed.v, fault |-> FALSE,
                          compare |-> "timingSafeEqual"]

(***************************************************************************)
(* Inputs of the envelope protocol.                                        *)
(***************************************************************************)
Zip560001 == JsObj(<<Prop(PostalCode, JsStr(<<"5", "6", "0", "0", "0", "1">>))>>)
Zip560002 == JsObj(<<Prop(PostalCode, JsStr(<<"5", "6", "0", "0", "0", "2">>))>>)
Zip999 == JsObj(<<Prop(PostalCode, JsStr(<<"9", "9", "9">>))>>)
ZipNumber == JsObj(<<Prop(PostalCode, JsNum(5))>>)
EmptyObject == JsObj(<<>>)

\* The payloads a caller hands to createSignedRequest.
RequestPayloads ==
    {Zip560001, Zip560002, Zip999, ZipNumber, EmptyObject, JsNum(5), JsNull}

\* {"postalCode":"560001"} with a space after the opening brace, and the same
\* text cut before its closing brace.
Zip560001Spaced == <<"{", " ">> \o Tail(Stringify(Zip560001))
Zip560001Cut == SubSeq(Stringify(Zip560001), 1, Len(Stringify(Zip560001)) - 1)

\* The request bodies that may arrive on the wire.
WireBodies ==
    {Stringify(p) : p \in RequestPayloads} \cup {Zip560001Spaced, Zip560001Cut}

\* The secrets a process may have been configured with.
OtherSecret == "k2"
Secrets == {HMAC_SECRET, OtherSecret}

\* Date.now() as the signer reads it and as the verifier reads it.
SignTimes == {T0}
VerifyTimes ==
    {T0 - MAX_TIME_DIFF - 1, T0 - MAX_TIME_DIFF, T0,
     T0 + MAX_TIME_DIFF, T0 + MAX_TIME_DIFF + 1}

\* The X-HMAC-Timestamp values (and hmac.timestamp values) that may arrive.
Abc == <<"a", "b", "c">>
WireTimestamps ==
    {Undefined, <<>>, toString(T0), toString(T0 + 1), Abc, toString(T0) \o Abc}

\* A string of HexLen characters that is no digest, and a short one.
ForgedHex == Lit([i \in 1..HexLen |-> "0"])
ShortSig == Lit(Abc)

Methods == {"GET", "POST", "PUT"}

\* The options the callers hand to fetchWithHMAC: none (a GET), or a method
\* with the JSON text of a payload as body, or a POST without body.
FetchOptions ==
    {<<NoMethod, Undefined>>, <<"POST", Undefined>>}
    \cup {<<m, Stringify(p)>> : m \in {"POST", "PUT"}, p \in RequestPayloads}

\* The payloads handed to signResponse.
ResponsePayloads ==
    {JsObj(<<Prop(Serviceable, JsBool(TRUE))>>), EmptyObject,
     JsNum(5), JsStr(Abc), JsNum(0), JsBool(FALSE), JsStr(<<>>), JsNull}

\* {"serviceable":true} with a space after the opening brace.
ServiceableSpaced ==
    <<"{", " ">> \o Tail(Stringify(JsObj(<<Prop(Serviceable, JsBool(TRUE))>>)))

\* The data members that may arrive in a response (Undefined: no data member).
WireData ==
    {Stringify(p) : p \in ResponsePayloads} \cup {ServiceableSpaced, Undefined}


(***************************************************************************)
(* Inputs of the App Proxy check.                                          *)
(***************************************************************************)
ShopifySecret == "shopify-api-secret"
ProxySigners == {ShopifySecret, OtherSecret}

Param(key, value) == [k |-> key, v |-> value]
Shop1 == <<"s", "1">>
Shop2 == <<"s", "2">>
Stamp == <<"1", "7">>
LateStamp == toString(T0 + 2 * MAX_TIME_DIFF)
\* The parameter lists a query may carry besides its signature.
ParamLists ==
    {<<>>,
     <<Param(Shop, Shop1)>>,
     <<Param(Shop, Shop2)>>,
     <<Param(Shop, Shop1), Param(TimestampParam, Stamp)>>,
     <<Param(TimestampParam, Stamp), Param(Shop, Shop1)>>,
     <<Param(Shop, Shop1), Param(TimestampParam, LateStamp)>>,
     <<Param(<<"a">>, <<"1", "b", "=", "2">>)>>,
     <<Param(<<"a">>, <<"1">>), Param(<<"b">>, <<"2">>)>>,
     <<Param(<<"b">>, <<"2">>), Param(<<"a">>, <<"1">>)>>}

\* The signature parameters a query may carry: a digest over any parameter
\* list under either signer's secret, in hex or base64, a string that is no
\* digest, an empty one, or none.
ProxySignatureChoices ==
    {Hex(k, SortedConcat(ps)) : k \in ProxySigners, ps \in ParamLists}
    \cup {Base64(ShopifySecret, SortedConcat(ps)) : ps \in ParamLists}
    \cup {ForgedHex, Lit(<<>>), NoString}

\* The routes registered under /proxy, and the requests the model sends.
ProxyRoutes ==
    {<<"GET", "/proxy/external-data">>, <<"GET", "/proxy/external-posts">>,
     <<"GET", "/proxy/check-serviceability">>,
     <<"POST", "/proxy/check-serviceability">>}
ProxyTargets ==
    {<<"GET", "/proxy/external-data">>, <<"POST", "/proxy/check-serviceability">>,
     <<"POST", "/proxy/external-data">>, <<"OPTIONS", "/proxy/check-serviceability">>}

(***************************************************************************)
(* Inputs of the webhook check.                                            *)
(***************************************************************************)
\* An event's body, the same text cut before its closing brace, a JSON
\* number, and no body at all.
OrderEvent == Stringify(JsObj(<<Prop(<<"i", "d">>, JsNum(5))>>))
OrderEventCut == SubSeq(OrderEvent, 1, Len(OrderEvent) - 1)
HookBodies == {OrderEvent, OrderEventCut, <<"5">>, Undefined}

\* A string of Base64Len characters that is no digest.
ForgedBase64 == Lit([i \in 1..Base64Len |-> "A"])

\* The X-Shopify-Hmac-Sha256 values a request may carry: a digest of any
\* body under either signer's secret in base64, under the server's in hex, a
\* string that is no digest, a short one, an empty one, or none.
HookHeaderChoices ==
    {Base64(k, b) : k \in ProxySigners, b \in HookBodies \ {Undefined}}
    \cup {Hex(ShopifySecret, b) : b \in HookBodies \ {Undefined}}
    \cup {ForgedBase64, ShortSig, Lit(<<>>), NoString}

(***************************************************************************)
(* State.                                                                  *)
(***************************************************************************)
VARIABLES
    phase,        \* where the exchange stands
    srvSecret,    \* process.env.HMAC_SECRET of the backend
    srvUp,        \* the backend process: "starting", "listening", "exited"
    sent,         \* the request as createSignedRequest built it (NoReq: none)
    req,          \* the request on the wire, then as Express holds it
    reqChanged,   \* what was changed in flight: "none", "body", "ts", "sig", "all"
    reqBody,      \* req.body after express.json()
    verdict,      \* the outcome of verifyHMACMiddleware
    srvTime,      \* Date.now() as the middleware read it
    handlerRan,   \* the POST /api/check-serviceability handler was entered
    signedData,   \* the payload handed to signResponse
    res,          \* the response on the wire
    resChanged,   \* what was changed in flight
    cliTime,      \* Date.now() as verifyHMACResponse read it
    cliResult,    \* what verifyHMACResponse returned
    fetchOutcome, \* fetchWithHMAC's promise: "pending", "resolved", "rejected"
    webSecret,    \* process.env.SHOPIFY_API_SECRET of web/index.js
    webKey,       \* process.env.SHOPIFY_API_KEY of web/index.js
    webUp,        \* the web process: "starting", "listening", "exited"
    webPhase,     \* where the request to web/index.js stands
    webReq,       \* the request: method, path, signature parameter, other parameters
    proxyOutcome, \* what the /proxy middleware did
    shopDomain,   \* req.shopDomain
    proxyHandlerRan, \* a /proxy/* route handler was entered
    hookReq,      \* the request to POST /webhooks: header and raw body
    hookOutcome,  \* what verifyShopifyWebhook did
    hookHandlerRan, \* the POST /webhooks handler was entered
    verdictAgain, \* verifyHMACMiddleware's outcome on the same request, presented again
    srvTimeAgain, \* Date.now() as the middleware read it that second time
    proxyAgain,   \* the /proxy middleware's outcome on the same request, presented again
    hookAgain,    \* verifyShopifyWebhook's outcome on the same request, presented again
    zip,          \* Checkout.jsx: shippingAddress.zip
    calls,        \* Checkout.jsx: the checkServiceability calls awaiting fetchWithHMAC
    started,      \* Checkout.jsx: how many checkServiceability calls have started
    checkingServiceability, \* Checkout.jsx: useState(false)
    serviceabilityResult,   \* Checkout.jsx: useState(null)
    serviceabilityError     \* Checkout.jsx: useState(null)

reqVars == <<sent, req, reqChanged, reqBody, verdict, srvTime, handlerRan>>
resVars == <<signedData, res, resChanged, cliTime, cliResult, fetchOutcome>>
envVars == <<phase, srvSecret, srvUp, reqVars, resVars>>
proxyVars == <<webReq, proxyOutcome, shopDomain, proxyHandlerRan>>
hookVars == <<hookReq, hookOutcome, hookHandlerRan>>
webVars == <<webSecret, webKey, webUp, webPhase, proxyVars, hookVars>>
againVars == <<verdictAgain, srvTimeAgain, proxyAgain, hookAgain>>
extVars == <<zip, calls, started, checkingServiceability, serviceabilityResult,
             serviceabilityError>>
vars == <<envVars, webVars, againVars, extVars>>

NoReq == [method |-> "", ctype |-> "", sig |-> NoString, ts |-> Undefined,
          body |-> Undefined]
NoVerdict ==
    [next |-> FALSE, status |-> 0, error |-> "", message |-> "", fault |-> FALSE,
     compare |-> "none"]
NoRes == [status |-> 0, hmac |-> FALSE, data |-> Undefined, sig |-> NoString,
          ts |-> Undefined, error |-> ""]
Envelope(code, env) ==
    [status |-> code, hmac |-> env.hmac, data |-> env.data, sig |-> env.sig,
     ts |-> env.ts, error |-> ""]
NoResult ==
    [isValid |-> FALSE, data |-> JsUndefined, error |-> "", compare |-> "none"]
NoWebReq == [method |-> "", path |-> "", sig |-> NoString, params |-> <<>>]
NoHookReq == [header |-> NoString, raw |-> Undefined, sent |-> FALSE]

\* An environment variable that is not set (or is set to the empty string).
NoSecret == ""

\* Checkout.jsx: null in a useState cell, and a shipping address without zip.
Null == [kind |-> "null", of |-> 0, zip |-> ""]
NoZip == ""
ShopifyKey == "shopify-api-key"

Init ==
    /\ phase = "idle"
    /\ srvSecret \in Secrets \cup {NoSecret}
    /\ srvUp = "starting"
    /\ sent = NoReq
    /\ req = NoReq
    /\ reqChanged = "none"
    /\ reqBody = JsUndefined
    /\ verdict = NoVerdict
    /\ srvTime = 0
    /\ handlerRan = FALSE
    /\ signedData = JsUndefined
    /\ res = NoRes
    /\ resChanged = "none"
    /\ cliTime = 0
    /\ cliResult = NoResult
    /\ fetchOutcome = "pending"
    /\ webSecret \in {ShopifySecret, NoSecret}
    /\ webKey \in {ShopifyKey, NoSecret}
    /\ webUp = "starting"
    /\ webPhase = "idle"
    /\ webReq = NoWebReq
    /\ proxyOutcome = NoProxyOutcome
    /\ shopDomain = Undefined
    /\ proxyHandlerRan = FALSE
    /\ hookReq = NoHookReq
    /\ hookOutcome = NoHookOutcome
    /\ hookHandlerRan = FALSE
    /\ verdictAgain = NoVerdict
    /\ srvTimeAgain = 0
    /\ proxyAgain = NoProxyOutcome
    /\ hookAgain = NoHookOutcome
    /\ zip = NoZip
    /\ calls = {}
    /\ started = 0
    /\ checkingServiceability = FALSE
    /\ serviceabilityResult = Null
    /\ serviceabilityError = Null

(***************************************************************************)
(* Start-up of the backend (part_000): without HMAC_SECRET the process     *)
(* exits before app.listen().                                              *)
(***************************************************************************)
\* Variant of the start-up that listens whatever the environment holds
\* (sensitivity of C16).
StartServerUnchecked ==
    /\ srvUp = "starting"
    /\ srvUp' = "listening"
    /\ UNCHANGED <<extVars, againVars, webVars, phase, srvSecret, reqVars, resVars>>

StartServer ==
    /\ srvUp = "starting"
    /\ srvUp' = IF srvSecret = NoSecret THEN "exited" ELSE "listening"
    /\ UNCHANGED <<extVars, againVars, webVars, phase, srvSecret, reqVars, resVars>>

(***************************************************************************)
(* The request path.                                                       *)
(***************************************************************************)
\* The client calls fetchWithHMAC(url, options): the request leaves.
ClientSend ==
    /\ phase = "idle"
    /\ srvUp = "listening"
    /\ \E options \in FetchOptions, t \in SignTimes :
          /\ sent' = fetchWithHMACRequest(options[1], options[2], t)
          /\ req' = fetchWithHMACRequest(options[1], options[2], t)
    /\ phase' = "request"
    /\ UNCHANGED <<extVars, againVars, webVars, srvUp, srvSecret, reqChanged, reqBody, verdict, srvTime, handlerRan, resVars>>

\* The signature strings a party may put on a request it writes: a digest
\* under either secret over the request's own body and timestamp, in hex or in
\* base64, the signature signResponse makes over the same payload and
\* timestamp, or a string that is no digest, or none.
SignatureChoices(bodyText, ts) ==
    LET value == JSONParse(bodyText).v
    IN {Hex(k, StringifyPayload(BodyField, value, ts)) : k \in Secrets}
       \cup {Hex(k, StringifyPayload(DataField, value, ts)) : k \in Secrets}
       \cup {Base64(k, StringifyPayload(BodyField, value, ts)) : k \in {HMAC_SECRET}}
       \cup {ForgedHex, ShortSig, Lit(<<>>), NoString}

\* One field of the signed request is changed in flight.
TamperRequest ==
    /\ phase = "request"
    /\ reqChanged = "none"
    /\ sent # NoReq
    /\ TruthySig(sent.sig)
    /\ \/ \E b \in WireBodies \ {req.body} :
             /\ req' = [req EXCEPT !.body = b]
             /\ reqChanged' = "body"
       \/ \E ts \in WireTimestamps \ {req.ts} :
             /\ req' = [req EXCEPT !.ts = ts]
             /\ reqChanged' = "ts"
       \/ \E sig \in SignatureChoices(req.body, req.ts) \ {req.sig} :
             /\ req' = [req EXCEPT !.sig = sig]
             /\ reqChanged' = "sig"
    /\ UNCHANGED <<extVars, againVars, webVars, srvUp, phase, srvSecret, sent, reqBody, verdict, srvTime, handlerRan, resVars>>

\* Any party writes a request of its own.
ForgeRequest ==
    /\ phase = "idle"
    /\ srvUp = "listening"
    /\ \E m \in Methods, b \in WireBodies, ts \in WireTimestamps :
          \E sig \in SignatureChoices(b, ts) :
             req' = [method |-> m, ctype |-> ApplicationJson, sig |-> sig,
                     ts |-> ts, body |-> b]
    /\ reqChanged' = "all"
    /\ phase' = "request"
    /\ UNCHANGED <<extVars, againVars, webVars, srvUp, srvSecret, sent, reqBody, verdict, srvTime, handlerRan, resVars>>

\* An unsigned error response, as Express or the middleware sends it.
ErrorResponse(code, err) ==
    [status |-> code, hmac |-> FALSE, data |-> Undefined, sig |-> NoString,
     ts |-> Undefined, error |-> err]

\* app.use(express.json()): req.body is set, or the request ends with 400.
BodyParser ==
    /\ phase = "request"
    /\ LET parsed == BodyParsed(req)
       IN IF parsed.ok
          THEN /\ reqBody' = parsed.v
               /\ phase' = "parsed"
               /\ res' = res
          ELSE /\ reqBody' = reqBody
               /\ phase' = "response"
               /\ res' = ErrorResponse(400, "Bad Request")
    /\ UNCHANGED <<extVars, againVars, webVars, srvUp, srvSecret, sent, req, reqChanged, verdict, srvTime, handlerRan,
                   signedData, resChanged, cliTime, cliResult, fetchOutcome>>

\* app.use('/api/check-serviceability', verifyHMACMiddleware(HMAC_SECRET)).
Middleware ==
    /\ phase = "parsed"
    /\ \E currentTime \in VerifyTimes :
          /\ srvTime' = currentTime
          /\ LET v == verifyHMACMiddleware(srvSecret, req.method, req.sig, req.ts,
                                           reqBody, currentTime)
             IN /\ verdict' = v
                /\ IF v.next
                   THEN /\ phase' = "verified"
                        /\ res' = res
                   ELSE /\ phase' = "response"
                        /\ res' = ErrorResponse(v.status, v.error)
    /\ UNCHANGED <<extVars, againVars, webVars, srvUp, srvSecret, sent, req, reqChanged, reqBody, handlerRan,
                   signedData, resChanged, cliTime, cliResult, fetchOutcome>>

(***************************************************************************)
(* The response path.                                                      *)
(***************************************************************************)
\* next() reached the route: app.post('/api/check-serviceability') is entered.
HandlerStart ==
    /\ phase = "verified"
    /\ req.method = "POST"
    /\ handlerRan' = TRUE
    /\ phase' = "handling"
    /\ UNCHANGED <<extVars, againVars, webVars, srvUp, srvSecret, sent, req, reqChanged, reqBody, verdict, srvTime, resVars>>

\* next() reached no route: the path has a POST handler only.
NotFound ==
    /\ phase = "verified"
    /\ req.method # "POST"
    /\ res' = ErrorResponse(404, "Not Found")
    /\ phase' = "response"
    /\ UNCHANGED <<extVars, againVars, webVars, srvUp, srvSecret, reqVars, signedData, resChanged, cliTime, cliResult,
                   fetchOutcome>>

\* The handler answers: res.json(signResponse(responseData, HMAC_SECRET)).
HandlerRespond ==
    /\ phase = "handling"
    /\ \E t \in SignTimes :
          LET out == CheckServiceability(reqBody)
          IN /\ signedData' = out.data
             /\ res' = Envelope(out.status, signResponse(out.data, srvSecret, t))
    /\ phase' = "response"
    /\ UNCHANGED <<extVars, againVars, webVars, srvUp, srvSecret, reqVars, resChanged, cliTime, cliResult, fetchOutcome>>

\* signResponse applied to any payload, sent with status 200.
SignResponse ==
    /\ phase = "idle"
    /\ srvUp = "listening"
    /\ \E data \in ResponsePayloads, t \in SignTimes :
          /\ signedData' = data
          /\ res' = Envelope(200, signResponse(data, srvSecret, t))
    /\ phase' = "response"
    /\ UNCHANGED <<extVars, againVars, webVars, srvUp, srvSecret, reqVars, resChanged, cliTime, cliResult, fetchOutcome>>

\* The signature strings a party may put in a response it writes.
ResponseSignatureChoices(dataText, ts) ==
    LET value == ResponseData(dataText)
    IN {Hex(k, StringifyPayload(DataField, value, ts)) : k \in Secrets}
       \cup {Hex(HMAC_SECRET, StringifyPayload(BodyField, value, ts))}
       \cup {Base64(k, StringifyPayload(DataField, value, ts)) : k \in {HMAC_SECRET}}
       \cup {ForgedHex, ShortSig, Lit(<<>>), NoString}

\* One field of a signed response is changed in flight.
TamperResponse ==
    /\ phase = "response"
    /\ resChanged = "none"
    /\ res.hmac
    /\ \/ \E d \in WireData \ {res.data} :
             /\ res' = [res EXCEPT !.data = d]
             /\ resChanged' = "data"
       \/ \E ts \in WireTimestamps \ {res.ts} :
             /\ res' = [res EXCEPT !.ts = ts]
             /\ resChanged' = "ts"
       \/ \E sig \in ResponseSignatureChoices(res.data, res.ts) \ {res.sig} :
             /\ res' = [res EXCEPT !.sig = sig]
             /\ resChanged' = "sig"
    /\ UNCHANGED <<extVars, againVars, webVars, srvUp, phase, srvSecret, reqVars, signedData, cliTime, cliResult,
                   fetchOutcome>>

\* Any party writes a response of its own, with status 200.
ForgeResponse ==
    /\ phase = "idle"
    /\ \E d \in WireData, ts \in WireTimestamps, h \in BOOLEAN :
          \E sig \in ResponseSignatureChoices(d, ts) :
             res' = [status |-> 200, hmac |-> h, data |-> d, sig |-> sig, ts |-> ts,
                     error |-> ""]
    /\ resChanged' = "all"
    /\ phase' = "response"
    /\ UNCHANGED <<extVars, againVars, webVars, srvUp, srvSecret, reqVars, signedData, cliTime, cliResult, fetchOutcome>>

\* fetchWithHMAC after fetch() returned: a status that is not ok throws, else
\* the body is parsed and handed to verifyHMACResponse; the promise resolves
\* with verification.data or rejects.
ClientReceive ==
    /\ phase = "response"
    /\ \E currentTime \in VerifyTimes :
          IF res.status # 200
          THEN /\ fetchOutcome' = "rejected"
               /\ UNCHANGED <<cliTime, cliResult>>
          ELSE LET v == verifyHMACResponse(res.hmac, ResponseData(res.data), res.sig,
                                           res.ts, currentTime)
               IN /\ cliTime' = currentTime
                  /\ cliResult' = v
                  /\ fetchOutcome' = IF v.isValid THEN "resolved" ELSE "rejected"
    /\ phase' = "done"
    /\ UNCHANGED <<extVars, againVars, webVars, srvUp, srvSecret, reqVars, signedData, res, resChanged>>

Next ==
    \/ StartServer
    \/ ClientSend
    \/ TamperRequest
    \/ ForgeRequest
    \/ BodyParser
    \/ Middleware
    \/ HandlerStart
    \/ NotFound
    \/ HandlerRespond
    \/ SignResponse
    \/ TamperResponse
    \/ ForgeResponse
    \/ ClientReceive

Spec == Init /\ [][Next]_vars

(***************************************************************************)
(* Start-up of web/index.js: without SHOPIFY_API_SECRET or SHOPIFY_API_KEY *)
(* the process exits before app.listen().                                  *)
(***************************************************************************)
StartWeb ==
    /\ webUp = "starting"
    /\ webUp' = IF webSecret = NoSecret \/ webKey = NoSecret
                THEN "exited" ELSE "listening"
    /\ UNCHANGED <<extVars, againVars, envVars, webSecret, webKey, webPhase, proxyVars, hookVars>>

(***************************************************************************)
(* web/index.js: requests under /proxy.                                    *)
(***************************************************************************)
\* A request for a /proxy path arrives with some query.
ProxyRequest ==
    /\ webPhase = "idle"
    /\ webUp = "listening"
    /\ \E target \in ProxyTargets, ps \in ParamLists, sig \in ProxySignatureChoices :
          webReq' = [method |-> target[1], path |-> target[2], sig |-> sig,
                     params |-> ps]
    /\ webPhase' = "request"
    /\ UNCHANGED <<extVars, againVars, envVars, webSecret, webKey, webUp, proxyOutcome, shopDomain,
                   proxyHandlerRan, hookVars>>

\* The CORS middleware in front answers every OPTIONS request with 204.
Preflight ==
    /\ webPhase = "request"
    /\ webReq.method = "OPTIONS"
    /\ webPhase' = "done"
    /\ UNCHANGED <<extVars, againVars, envVars, webSecret, webKey, webUp, proxyVars, hookVars>>

\* app.use('/proxy', ...): 401, or req.shopDomain set and next().
ProxyVerify ==
    /\ webPhase = "request"
    /\ webReq.method # "OPTIONS"
    /\ LET out == ProxyMiddleware(webSecret, webReq.sig, webReq.params)
       IN /\ proxyOutcome' = out
          /\ shopDomain' = out.shopDomain
          /\ webPhase' = IF out.next THEN "verified" ELSE "done"
    /\ UNCHANGED <<extVars, againVars, envVars, webSecret, webKey, webUp, webReq, proxyHandlerRan,
                   hookVars>>

\* next() reached app.get/app.post('/proxy/...'): the handler is entered, or
\* no route matches and Express answers 404.
ProxyRoute ==
    /\ webPhase = "verified"
    /\ proxyHandlerRan' = (<<webReq.method, webReq.path>> \in ProxyRoutes)
    /\ webPhase' = "done"
    /\ UNCHANGED <<extVars, againVars, envVars, webSecret, webKey, webUp, webReq, proxyOutcome,
                   shopDomain, hookVars>>

(***************************************************************************)
(* web/index.js: POST /webhooks.                                           *)
(***************************************************************************)
\* A POST /webhooks request arrives; express.raw() has read its body.
WebhookRequest ==
    /\ webPhase = "idle"
    /\ webUp = "listening"
    /\ \E h \in HookHeaderChoices, b \in HookBodies :
          hookReq' = [header |-> h, raw |-> b, sent |-> TRUE]
    /\ webPhase' = "hook"
    /\ UNCHANGED <<extVars, againVars, envVars, webSecret, webKey, webUp, proxyVars, hookOutcome,
                   hookHandlerRan>>

\* app.post("/webhooks", verifyShopifyWebhook(process.env.SHOPIFY_API_SECRET), ...)
WebhookVerify ==
    /\ webPhase = "hook"
    /\ LET out == verifyShopifyWebhook(webSecret, hookReq.header, hookReq.raw)
       IN /\ hookOutcome' = out
          /\ webPhase' = IF out.next THEN "hookVerified" ELSE "done"
    /\ UNCHANGED <<extVars, againVars, envVars, webSecret, webKey, webUp, proxyVars, hookReq,
                   hookHandlerRan>>

\* next() reached the route's handler: res.status(200).send("OK").
WebhookHandler ==
    /\ webPhase = "hookVerified"
    /\ hookHandlerRan' = TRUE
    /\ webPhase' = "done"
    /\ UNCHANGED <<extVars, againVars, envVars, webSecret, webKey, webUp, proxyVars, hookReq,
                   hookOutcome>>

WebNext ==
    \/ StartWeb
    \/ ProxyRequest
    \/ Preflight
    \/ ProxyVerify
    \/ ProxyRoute
    \/ WebhookRequest
    \/ WebhookVerify
    \/ WebhookHandler

WebSpec == Init /\ [][WebNext]_vars

(***************************************************************************)
(* Both servers, one request in the system at a time.                      *)
(***************************************************************************)
AdaptersNext ==
    \/ webPhase = "idle" /\ Next
    \/ phase = "idle" /\ WebNext

AdaptersSpec == Init /\ [][AdaptersNext]_vars

\* verifyHMACMiddleware has run on the request.
MiddlewareRan == verdict # NoVerdict
\* The /proxy middleware has dealt with the request.
ProxyChecked == proxyOutcome # NoProxyOutcome
\* verifyShopifyWebhook has dealt with the request.
HookChecked == hookOutcome # NoHookOutcome

(***************************************************************************)
(* The same request presented a second time, while or after the first is   *)
(* handled: each verifier runs again on it, at its own Date.now().         *)
(***************************************************************************)
\* Variant of the second verification that refuses a signature the
\* middleware has accepted before (sensitivity of C23).
MiddlewareAgainOnce ==
    /\ MiddlewareRan
    /\ verdictAgain = NoVerdict
    /\ webPhase = "idle"
    /\ \E currentTime \in VerifyTimes :
          /\ srvTimeAgain' = currentTime
          /\ verdictAgain' =
                IF verdict.next /\ req.method # "GET"
                THEN Reject(401, "Replayed request", "Signature already used")
                ELSE verifyHMACMiddleware(srvSecret, req.method, req.sig, req.ts,
                                          reqBody, currentTime)
    /\ UNCHANGED <<extVars, envVars, webVars, proxyAgain, hookAgain>>

MiddlewareAgain ==
    /\ MiddlewareRan
    /\ verdictAgain = NoVerdict
    /\ webPhase = "idle"
    /\ \E currentTime \in VerifyTimes :
          /\ srvTimeAgain' = currentTime
          /\ verdictAgain' = verifyHMACMiddleware(srvSecret, req.method, req.sig,
                                                  req.ts, reqBody, currentTime)
    /\ UNCHANGED <<extVars, envVars, webVars, proxyAgain, hookAgain>>

ProxyVerifyAgain ==
    /\ ProxyChecked
    /\ proxyAgain = NoProxyOutcome
    /\ phase = "idle"
    /\ proxyAgain' = ProxyMiddleware(webSecret, webReq.sig, webReq.params)
    /\ UNCHANGED <<extVars, envVars, webVars, verdictAgain, srvTimeAgain, hookAgain>>

WebhookVerifyAgain ==
    /\ HookChecked
    /\ hookAgain = NoHookOutcome
    /\ phase = "idle"
    /\ hookAgain' = verifyShopifyWebhook(webSecret, hookReq.header, hookReq.raw)
    /\ UNCHANGED <<extVars, envVars, webVars, verdictAgain, srvTimeAgain, proxyAgain>>

\* Both servers run with their secrets set.
ReplayInit ==
    /\ Init
    /\ srvSecret = HMAC_SECRET
    /\ webSecret = ShopifySecret
    /\ webKey = ShopifyKey

ReplayNext ==
    \/ AdaptersNext
    \/ MiddlewareAgain
    \/ ProxyVerifyAgain
    \/ WebhookVerifyAgain

ReplaySpec == ReplayInit /\ [][ReplayNext]_vars

(***************************************************************************)
(* Checkout.jsx: the serviceability state of the checkout extension.  zip  *)
(* stands for the zip and city of useShippingAddress() (NoZip: no address  *)
(* yet); calls holds the checkServiceability calls whose request is still  *)
(* in flight, numbered in the order they started.  A response is told      *)
(* apart by the call it answers and the address that call asked about.     *)
(***************************************************************************)
MaxChecks == 3
Zips == {"560001", "999999"}

\* checkServiceability() up to its await, for the address z of the render it
\* was created in: the three set-state calls, then the request leaves.
checkServiceability(z) ==
    /\ started < MaxChecks
    /\ checkingServiceability' = TRUE
    /\ serviceabilityError' = Null
    /\ serviceabilityResult' = Null
    /\ started' = started + 1
    /\ calls' = calls \cup {[id |-> started + 1, zip |-> z]}

\* The buyer edits the address: the effect on [zip, city] runs and, with a
\* zip present, starts a check, whether or not one is in flight.
AddressChange ==
    /\ \E z \in (Zips \cup {NoZip}) \ {zip} :
          /\ zip' = z
          /\ IF z = NoZip
             THEN UNCHANGED <<calls, started, checkingServiceability,
                              serviceabilityResult, serviceabilityError>>
             ELSE checkServiceability(z)
    /\ UNCHANGED <<envVars, webVars, againVars>>

\* The buyer presses 'Re-check Serviceability', disabled while the flag is set.
PressCheck ==
    /\ zip # NoZip
    /\ ~checkingServiceability
    /\ checkServiceability(zip)
    /\ UNCHANGED <<envVars, webVars, againVars, zip>>

\* The await of one call in flight returns: setServiceabilityResult(result),
\* then the finally block.
CheckResolved ==
    /\ \E c \in calls :
          /\ serviceabilityResult' = [kind |-> "result", of |-> c.id, zip |-> c.zip]
          /\ calls' = calls \ {c}
    /\ checkingServiceability' = FALSE
    /\ UNCHANGED <<envVars, webVars, againVars, zip, started, serviceabilityError>>

\* The await of one call in flight throws: setServiceabilityError(err.message),
\* then the finally block.
CheckFailed ==
    /\ \E c \in calls :
          /\ serviceabilityError' = [kind |-> "error", of |-> c.id, zip |-> c.zip]
          /\ calls' = calls \ {c}
    /\ checkingServiceability' = FALSE
    /\ UNCHANGED <<envVars, webVars, againVars, zip, started, serviceabilityResult>>

CheckoutNext ==
    \/ AddressChange
    \/ PressCheck
    \/ CheckResolved
    \/ CheckFailed

CheckoutSpec == Init /\ [][CheckoutNext]_vars

(***************************************************************************)
(* Vocabulary of the properties.                                           *)
(***************************************************************************)
AbsDiff(a, b) == IF a < b THEN b - a ELSE a - b

\* cs is an integer in decimal: an optional sign and digits, nothing else.
IsInteger(cs) ==
    /\ cs # Undefined
    /\ LET u == IF cs # <<>> /\ Head(cs) \in {"-", "+"} THEN Tail(cs) ELSE cs
       IN u # <<>> /\ DigitPrefix(u) = u

\* The integer timestamp ts lies in the replay window around currentTime.
WithinWindow(ts, currentTime) ==
    IsInteger(ts) /\ AbsDiff(currentTime, parseInt(ts).v) <= MAX_TIME_DIFF

\* The server has dealt with the request (its body parser at least).
Served == phase \notin {"idle", "request", "parsed"}
\* verifyHMACResponse has run on the response.
ClientVerified == cliResult # NoResult

\* The request on the wire is the one createSignedRequest built.
Untouched == sent # NoReq /\ TruthySig(sent.sig) /\ reqChanged = "none"
\* The response on the wire is the one signResponse built, sent with 200.
UntouchedResponse == res.hmac /\ resChanged = "none" /\ res.status = 200

\* X-HMAC-Signature is the hex HMAC, under secret, of {body, timestamp}.
SignatureMatches(secret) ==
    req.sig = Hex(secret, StringifyPayload(BodyField, reqBody, req.ts))
\* hmac.signature is the hex HMAC, under secret, of {data, timestamp}.
ResponseSignatureMatches(secret) ==
    res.sig = Hex(secret, StringifyPayload(DataField, ResponseData(res.data), res.ts))

(***************************************************************************)
(* C1 (as stated).  Request round trip: for every JSON payload P, with the *)
(* same secret on both sides and the server clock within 300000 ms of the  *)
(* client's timestamp, the request createSignedRequest(P) built reaches    *)
(* next() in verifyHMACMiddleware.                                         *)
(***************************************************************************)
C1_AnyPayloadRoundTrip ==
    (/\ Served
     /\ Untouched
     /\ srvSecret = HMAC_SECRET
     /\ MiddlewareRan => WithinWindow(sent.ts, srvTime))
    => verdict.next

(***************************************************************************)
(* C1 (amended).  Request round trip for every payload P that is a JSON    *)
(* object: same secret, server clock within 300000 ms of the client's      *)
(* timestamp, then the request createSignedRequest(P) built reaches next().*)
(***************************************************************************)
C1_ObjectRoundTrip ==
    (/\ Served
     /\ Untouched
     /\ JSONParse(sent.body).v.t = "obj"
     /\ srvSecret = HMAC_SECRET
     /\ MiddlewareRan => WithinWindow(sent.ts, srvTime))
    => verdict.next

\* A signed object payload was verified at the edge of the window and passed.
C1_Witness ==
    /\ Untouched
    /\ sent.body = Stringify(Zip560001)
    /\ srvSecret = HMAC_SECRET
    /\ srvTime = T0 + MAX_TIME_DIFF
    /\ verdict.next

(***************************************************************************)
(* C2 (as stated).  Response round trip: for every payload P, falsy ones   *)
(* included, the envelope signResponse(P, S) built, verified by the client *)
(* holding S within the 300000 ms window, gives isValid = true, data = P.  *)
(***************************************************************************)
C2_ResponseRoundTrip ==
    (/\ phase = "done"
     /\ UntouchedResponse
     /\ srvSecret = HMAC_SECRET
     /\ WithinWindow(res.ts, cliTime))
    => (cliResult.isValid /\ cliResult.data = signedData)

\* The verdict verifyHMACMiddleware gives the request as the client built it,
\* had it arrived unchanged at the time the server read its clock.
OriginalAccepted ==
    /\ sent # NoReq
    /\ BodyParsed(sent).ok
    /\ verifyHMACMiddleware(srvSecret, sent.method, sent.sig, sent.ts,
                            BodyParsed(sent).v, srvTime).next

(***************************************************************************)
(* C3 (as stated).  Tamper sensitivity: from a signed request the          *)
(* middleware accepts, a change of the body, of X-HMAC-Timestamp or of     *)
(* X-HMAC-Signature alone always leads to rejection: next() is not called. *)
(***************************************************************************)
C3_AnyChangeRejected ==
    (/\ Served
     /\ reqChanged \in {"body", "ts", "sig"}
     /\ OriginalAccepted)
    => ~verdict.next

(***************************************************************************)
(* C3 (amended).  From a signed request the middleware accepts, a change   *)
(* of X-HMAC-Timestamp, of X-HMAC-Signature, or of the body to a text that *)
(* does not parse to the same JSON value, always leads to rejection.       *)
(***************************************************************************)
C3_ValueChangeRejected ==
    (/\ Served
     /\ reqChanged \in {"body", "ts", "sig"}
     /\ reqChanged = "body" => JSONParse(req.body) # JSONParse(sent.body)
     /\ OriginalAccepted)
    => (~verdict.next /\ ~handlerRan)

\* postalCode was changed from 560001 to 560002 under the old signature, and
\* the middleware, which would have passed the original, answered 401.
C3_Witness ==
    /\ sent.body = Stringify(Zip560001)
    /\ req.body = Stringify(Zip560002)
    /\ reqChanged = "body"
    /\ OriginalAccepted
    /\ verdict = InvalidSignature

(***************************************************************************)
(* C4.  Key mismatch: a request whose signature was made with a secret     *)
(* other than the server's is never passed on by the middleware that       *)
(* verifies it, and a response whose signature was made with a secret      *)
(* other than the client's is never valid for verifyHMACResponse, whatever *)
(* the payload and the timestamp.                                          *)
(***************************************************************************)
C4_KeyMismatch ==
    /\ (/\ MiddlewareRan
        /\ req.method # "GET"
        /\ req.sig.enc \in {"hex", "base64"}
        /\ req.sig.key # srvSecret)
       => (~verdict.next /\ ~handlerRan)
    /\ (/\ phase = "done"
        /\ res.sig.enc \in {"hex", "base64"}
        /\ res.sig.key # HMAC_SECRET)
       => (~cliResult.isValid /\ fetchOutcome = "rejected")

\* The client's signed request, fresh, met a server holding another secret
\* and was answered 401 for its signature.
C4_Witness ==
    /\ Untouched
    /\ srvSecret # HMAC_SECRET
    /\ WithinWindow(req.ts, srvTime)
    /\ verdict = InvalidSignature

(***************************************************************************)
(* C5.  Freshness boundary: with both headers (fields) present, an integer *)
(* timestamp and a signature that matches, the middleware calls next() and *)
(* verifyHMACResponse answers isValid exactly when |now - timestamp| <=    *)
(* 300000: now - 300000 and now + 300000 pass, now - 300001 and            *)
(* now + 300001 fail.                                                      *)
(***************************************************************************)
C5_FreshnessBoundary ==
    /\ (/\ MiddlewareRan
        /\ req.method # "GET"
        /\ IsInteger(req.ts)
        /\ SignatureMatches(srvSecret))
       => (verdict.next <=> AbsDiff(srvTime, parseInt(req.ts).v) <= MAX_TIME_DIFF)
    /\ (/\ ClientVerified
        /\ res.hmac
        /\ Truthy(ResponseData(res.data))
        /\ IsInteger(res.ts)
        /\ ResponseSignatureMatches(HMAC_SECRET))
       => (cliResult.isValid <=> AbsDiff(cliTime, parseInt(res.ts).v) <= MAX_TIME_DIFF)

\* A request stamped now - 300000 passed the middleware.
C5_Witness ==
    /\ MiddlewareRan
    /\ req.method = "POST"
    /\ IsInteger(req.ts)
    /\ srvTime - parseInt(req.ts).v = MAX_TIME_DIFF
    /\ SignatureMatches(srvSecret)
    /\ verdict.next

(***************************************************************************)
(* C6.  For every non-GET request to the guarded route the handler runs    *)
(* only if all three checks passed: both headers present, the timestamp    *)
(* within the 300000 ms window, and the signature equal to the HMAC of     *)
(* {body, timestamp} under the server's secret.                            *)
(***************************************************************************)
C6_HandlerOnlyAfterThreeChecks ==
    (handlerRan /\ req.method # "GET")
    => (/\ TruthySig(req.sig) /\ TruthyStr(req.ts)
        /\ WithinWindow(req.ts, srvTime)
        /\ SignatureMatches(srvSecret))

(***************************************************************************)
(* C7.  A timestamp that is present but is no integer ("abc", or digits    *)
(* followed by other characters) is never accepted, by the middleware or   *)
(* by verifyHMACResponse, even under a signature that is a correct HMAC    *)
(* over that timestamp string, and its rejection is not the expired one.   *)
(***************************************************************************)
C7_MalformedTimestampRejected ==
    /\ (/\ MiddlewareRan
        /\ req.method # "GET"
        /\ TruthySig(req.sig) /\ TruthyStr(req.ts)
        /\ ~IsInteger(req.ts))
       => (~verdict.next /\ verdict # RequestExpired)
    /\ (/\ ClientVerified
        /\ res.hmac /\ Truthy(ResponseData(res.data))
        /\ TruthySig(res.sig) /\ TruthyStr(res.ts)
        /\ ~IsInteger(res.ts))
       => (/\ ~cliResult.isValid
           /\ cliResult.error # "Response timestamp is too old or in the future")

(***************************************************************************)
(* C8.  GET requests are exempt: the middleware calls next() for every GET *)
(* request whatever its HMAC headers; every request with another method    *)
(* passes only with a valid envelope (both headers, an integer timestamp   *)
(* in the window, a matching signature).                                   *)
(***************************************************************************)
C8_GetExemptOthersVerified ==
    /\ (MiddlewareRan /\ req.method = "GET") => verdict.next
    /\ (MiddlewareRan /\ req.method # "GET" /\ verdict.next)
       => (/\ TruthySig(req.sig) /\ TruthyStr(req.ts)
           /\ WithinWindow(req.ts, srvTime)
           /\ SignatureMatches(srvSecret))

\* The error the middleware reports for a signature that does not match.
MismatchError ==
    ProxyMiddleware(ShopifySecret, ForgedHex, <<Param(Shop, Shop1)>>).error

C10_HandlerOnlyForSignedQuery ==
    /\ (proxyHandlerRan \/ shopDomain # Undefined \/ webPhase = "verified")
       => (/\ webReq.sig = Hex(webSecret, SortedConcat(webReq.params))
           /\ shopDomain = GetParam(webReq.params, Shop))
    /\ (ProxyChecked /\ ~proxyOutcome.next)
       => (shopDomain = Undefined /\ ~proxyHandlerRan /\ webPhase = "done")

\* Shopify's signature over shop and timestamp, given in the other order,
\* was accepted and the handler ran for that shop.
C10_Witness ==
    /\ proxyHandlerRan
    /\ webReq.params = <<Param(TimestampParam, Stamp), Param(Shop, Shop1)>>
    /\ webReq.sig = Hex(ShopifySecret, <<"s", "h", "o", "p", "=", "s", "1",
                        "t", "i", "m", "e", "s", "t", "a", "m", "p", "=", "1", "7">>)
    /\ shopDomain = Shop1

\* Two parameter lists are the same map: the same key/value pairs, in any
\* order.
SameParams(a, b) ==
    /\ Len(a) = Len(b)
    /\ {a[i] : i \in DOMAIN a} = {b[i] : i \in DOMAIN b}

(***************************************************************************)
(* C11.  Query canonicalization is order-independent: a parameter map      *)
(* given in another order canonicalizes to the same string in              *)
(* verifyAppProxy and gets the same verdict under the same signature.      *)
(***************************************************************************)
C11_OrderIndependent ==
    ProxyChecked =>
       \A ps \in ParamLists :
          SameParams(ps, webReq.params) =>
             /\ SortedConcat(ps) = SortedConcat(webReq.params)
             /\ verifyAppProxy(webSecret, webReq.sig, ps) = proxyOutcome.next

\* The query b=2&a=1 was accepted under the signature made for a=1&b=2.
C11_Witness ==
    /\ webReq.params = <<Param(<<"b">>, <<"2">>), Param(<<"a">>, <<"1">>)>>
    /\ webReq.sig = Hex(ShopifySecret,
                        JoinPairs(<<<<"a">>, <<"b">>>>,
                                  <<Param(<<"a">>, <<"1">>), Param(<<"b">>, <<"2">>)>>))
    /\ proxyOutcome.next

(***************************************************************************)
(* C12.  A signature issued for one parameter map is never accepted for a  *)
(* different parameter map (another field set or other values, such as     *)
(* a = "1b=2" against a = "1", b = "2").                                   *)
(***************************************************************************)
C12_OtherMapRejected ==
    (ProxyChecked /\ proxyOutcome.next) =>
       \A ps \in ParamLists :
          webReq.sig = Hex(webSecret, SortedConcat(ps)) => SameParams(ps, webReq.params)


(***************************************************************************)
(* C13.  Webhook ordering: on POST /webhooks a missing                     *)
(* X-Shopify-Hmac-Sha256 header is rejected, a header that does not match  *)
(* is rejected, and the raw body is parsed and the handler entered only    *)
(* after the base64 HMAC of the raw body matched the header; on a rejected *)
(* request the handler never runs.                                         *)
(***************************************************************************)
C13_WebhookOrdering ==
    /\ (HookChecked /\ ~TruthySig(hookReq.header))
       => (~hookOutcome.next /\ hookOutcome.status = 401)
    /\ (HookChecked /\ hookReq.header # Base64(webSecret, hookReq.raw))
       => (~hookOutcome.next /\ hookOutcome.status \in {400, 401})
    /\ (hookOutcome.next \/ hookOutcome.body # JsUndefined \/ hookHandlerRan
            \/ webPhase = "hookVerified")
       => (/\ hookReq.raw # Undefined
           /\ hookReq.header = Base64(webSecret, hookReq.raw)
           /\ JSONParse(hookReq.raw).ok
           /\ hookOutcome.body = JSONParse(hookReq.raw).v)
    /\ (HookChecked /\ ~hookOutcome.next)
       => (~hookHandlerRan /\ webPhase = "done")

\* An event signed by Shopify in base64 was parsed and handed to the handler.
C13_Witness ==
    /\ hookReq.raw = OrderEvent
    /\ hookReq.header = Base64(ShopifySecret, OrderEvent)
    /\ hookOutcome.body = JsObj(<<Prop(<<"i", "d">>, JsNum(5))>>)
    /\ hookHandlerRan

(***************************************************************************)
(* C14.  Encoding isolation: the hex rendering of the HMAC given as the    *)
(* webhook header is never accepted by verifyShopifyWebhook, and the       *)
(* base64 rendering given as X-HMAC-Signature or as the proxy's signature  *)
(* parameter is never accepted by verifyHMACMiddleware or verifyAppProxy,  *)
(* whatever the secret and the message.                                    *)
(***************************************************************************)
C14_EncodingIsolation ==
    /\ (HookChecked /\ hookReq.header.enc = "hex")
       => (~hookOutcome.next /\ ~hookHandlerRan)
    /\ (MiddlewareRan /\ req.method # "GET" /\ req.sig.enc = "base64")
       => (~verdict.next /\ ~handlerRan)
    /\ (ProxyChecked /\ webReq.sig.enc = "base64")
       => (~proxyOutcome.next /\ ~proxyHandlerRan /\ shopDomain = Undefined)

\* The hex HMAC of the event under the server's own secret was refused.
C14_Witness ==
    /\ hookReq.raw = OrderEvent
    /\ hookReq.header = Hex(webSecret, OrderEvent)
    /\ HookChecked
    /\ ~hookOutcome.next
    /\ webPhase = "done"

(***************************************************************************)
(* C15.  A candidate signature whose byte length differs from the expected *)
(* one fails as an ordinary false: the envelope middleware and the webhook *)
(* adapter reject it with the same status and error as a signature of      *)
(* equal length that does not match.                                       *)
(***************************************************************************)
C15_LengthMismatchIsMismatch ==
    /\ (/\ MiddlewareRan
        /\ req.method # "GET"
        /\ TruthySig(req.sig) /\ TruthyStr(req.ts)
        /\ ~TooOld(req.ts, srvTime)
        /\ ByteLength(req.sig) # HexLen)
       => verdict = InvalidSignature
    /\ (/\ HookChecked
        /\ TruthySig(hookReq.header)
        /\ hookReq.raw # Undefined
        /\ ByteLength(hookReq.header) # Base64Len)
       => (hookOutcome.status = Unauthorized.status
           /\ hookOutcome.send = Unauthorized.send)

\* A request has reached the backend, or the backend has signed a response.
BackendServed ==
    req # NoReq \/ MiddlewareRan \/ handlerRan \/ signedData # JsUndefined
\* A request has reached web/index.js.
WebServed ==
    webReq # NoWebReq \/ hookReq.sent \/ ProxyChecked \/ HookChecked
       \/ webPhase # "idle"

(***************************************************************************)
(* C16.  Fail-fast start-up: each server checks its secret before it       *)
(* listens; with the secret absent the process exits and never handles a   *)
(* request, so every request is handled under a secret that is present and *)
(* has not changed since start-up.                                         *)
(***************************************************************************)
C16_FailFastStartup ==
    /\ [](/\ srvSecret = NoSecret => srvUp # "listening"
          /\ webSecret = NoSecret => webUp # "listening"
          /\ BackendServed => (srvUp = "listening" /\ srvSecret # NoSecret)
          /\ WebServed => (webUp = "listening" /\ webSecret # NoSecret))
    /\ [][/\ srvSecret' = srvSecret
          /\ webSecret' = webSecret
          /\ srvUp = "exited" => srvUp' = "exited"
          /\ webUp = "exited" => webUp' = "exited"]_vars

\* The backend, started without HMAC_SECRET, has exited without a request.
C16_Witness ==
    /\ srvSecret = NoSecret
    /\ srvUp = "exited"
    /\ ~BackendServed
    /\ webUp = "listening"

(***************************************************************************)
(* C17.  Uniform rejection: the response of verifyHMACMiddleware is the    *)
(* same (status and body) whether it rejected for missing credentials, a   *)
(* malformed or expired timestamp or a signature mismatch.                 *)
(***************************************************************************)
C17_UniformRejection ==
    (MiddlewareRan /\ ~verdict.next)
    => (/\ verdict.status = MissingHeaders.status
        /\ verdict.error = MissingHeaders.error
        /\ verdict.message = MissingHeaders.message)

C19_DirectionSeparation ==
    /\ (/\ MiddlewareRan
        /\ req.method # "GET"
        /\ req.sig = Hex(srvSecret, StringifyPayload(DataField, reqBody, req.ts)))
       => (~verdict.next /\ ~handlerRan)
    /\ (/\ ClientVerified
        /\ res.sig = Hex(HMAC_SECRET,
                         StringifyPayload(BodyField, ResponseData(res.data), res.ts)))
       => (~cliResult.isValid /\ fetchOutcome = "rejected")

\* A fresh POST carrying the response-style signature of its own body and
\* timestamp under the server's secret was answered 401.
C19_Witness ==
    /\ req.method = "POST"
    /\ req.ts = toString(T0)
    /\ srvTime = T0
    /\ reqBody = Zip560001
    /\ req.sig = Hex(srvSecret, StringifyPayload(DataField, Zip560001, toString(T0)))
    /\ verdict = InvalidSignature

(***************************************************************************)
(* C20.  On a proxy signature failure the response to the caller carries   *)
(* only the names of the parameters present and whether a timestamp was    *)
(* given; it never carries the secret or the signature value.              *)
(***************************************************************************)
C20_NoSignatureInResponse ==
    (ProxyChecked /\ ~proxyOutcome.next)
    => (/\ proxyOutcome.receivedSignature = NoString
        /\ proxyOutcome.receivedShop = Undefined)

(***************************************************************************)
(* C21.  Every response body the envelope server sends on its /api routes, *)
(* the rejections of the HMAC middleware included, has the shape           *)
(* {data, hmac: {signature, timestamp}} with signature the hex HMAC of     *)
(* {data, timestamp} under the server's secret.                            *)
(***************************************************************************)
C21_EveryResponseSigned ==
    (MiddlewareRan /\ res # NoRes /\ resChanged = "none")
    => (res.hmac /\ ResponseSignatureMatches(srvSecret))

(***************************************************************************)
(* C22.  Every signature comparison of the layer (request verification,    *)
(* the client's response verification, the proxy check, the webhook check) *)
(* is a constant-time comparison, never a short-circuiting equality.       *)
(***************************************************************************)
C22_ConstantTimeEverywhere ==
    /\ MiddlewareRan => verdict.compare \in {"none", "timingSafeEqual"}
    /\ ClientVerified => cliResult.compare \in {"none", "timingSafeEqual"}
    /\ ProxyChecked => proxyOutcome.compare \in {"none", "timingSafeEqual"}
    /\ HookChecked => hookOutcome.compare \in {"none", "timingSafeEqual"}

C24_ProxyIgnoresTime ==
    ProxyChecked
    => (proxyOutcome.next
          <=> (/\ TruthySig(webReq.sig)
               /\ webReq.sig = Hex(webSecret, SortedConcat(webReq.params))))

\* A query stamped 17 ms after the epoch was accepted under its signature.
C24_Witness ==
    /\ webReq.params = <<Param(Shop, Shop1), Param(TimestampParam, Stamp)>>
    /\ webReq.sig = Hex(webSecret, SortedConcat(webReq.params))
    /\ proxyOutcome.next
    /\ webPhase = "done"

(***************************************************************************)
(* C25.  A webhook whose signature verifies but whose raw body is no JSON  *)
(* is answered 400 ("Invalid Webhook"); the handler is never entered and   *)
(* req.body is not replaced by a parsed value.                             *)
(***************************************************************************)
C25_BadJsonRejected ==
    (/\ HookChecked
     /\ hookReq.raw # Undefined
     /\ hookReq.header = Base64(webSecret, hookReq.raw)
     /\ ~JSONParse(hookReq.raw).ok)
    => (/\ ~hookOutcome.next
        /\ hookOutcome.status = 400
        /\ hookOutcome.send = "Invalid Webhook"
        /\ hookOutcome.body = JsUndefined
        /\ ~hookHandlerRan
        /\ webPhase = "done")

\* A cut-off event under Shopify's signature was answered 400.
C25_Witness ==
    /\ hookReq.raw = OrderEventCut
    /\ hookReq.header = Base64(ShopifySecret, OrderEventCut)
    /\ hookOutcome.status = 400
    /\ webPhase = "done"

(***************************************************************************)
(* C26.  verifyHMACMiddleware checks presence, then freshness, then the    *)
(* signature: a request failing several checks gets the rejection of the   *)
(* earliest one, and no expected signature is computed for a request with  *)
(* a missing header or a timestamp outside the window.                     *)
(***************************************************************************)
C26_CheckOrder ==
    /\ (/\ MiddlewareRan
        /\ req.method # "GET"
        /\ ~TruthySig(req.sig) \/ ~TruthyStr(req.ts))
       => verdict = MissingHeaders
    /\ (/\ MiddlewareRan
        /\ req.method # "GET"
        /\ TruthySig(req.sig) /\ TruthyStr(req.ts)
        /\ IsInteger(req.ts)
        /\ AbsDiff(srvTime, parseInt(req.ts).v) > MAX_TIME_DIFF)
       => verdict = RequestExpired
    /\ (MiddlewareRan /\ verdict.compare # "none")
       => (/\ TruthySig(req.sig) /\ TruthyStr(req.ts)
           /\ ~TooOld(req.ts, srvTime))

\* A request both too old and wrongly signed was answered "Request expired".
C26_Witness ==
    /\ req.method = "POST"
    /\ req.sig = ForgedHex
    /\ req.ts = toString(T0)
    /\ srvTime = T0 + MAX_TIME_DIFF + 1
    /\ verdict = RequestExpired

(***************************************************************************)
(* C27.  fetchWithHMAC never resolves with unverified data: it resolves    *)
(* only when the status was ok and verifyHMACResponse answered isValid for *)
(* the body (envelope present, timestamp in the window, signature          *)
(* matching), and with exactly the data the signature covers; else it      *)
(* rejects.                                                                *)
(***************************************************************************)
C27_ResolvesOnlyVerified ==
    /\ fetchOutcome = "resolved"
       => (/\ res.status = 200
           /\ cliResult.isValid
           /\ res.hmac
           /\ WithinWindow(res.ts, cliTime)
           /\ ResponseSignatureMatches(HMAC_SECRET)
           /\ cliResult.data = ResponseData(res.data))
    /\ (phase = "done" /\ fetchOutcome # "resolved") => fetchOutcome = "rejected"

(***************************************************************************)
(* C28.  Client and server agree on which requests carry an envelope: for  *)
(* every method other than GET, a request fetchWithHMAC sent with a body   *)
(* carries X-HMAC-Signature and X-HMAC-Timestamp, and arriving unchanged   *)
(* it is never rejected by verifyHMACMiddleware for missing credentials.   *)
(***************************************************************************)
C28_BodyRequestsCarryEnvelope ==
    (/\ sent # NoReq
     /\ sent.method # "GET"
     /\ sent.body # Undefined)
    => /\ TruthySig(sent.sig)
       /\ TruthyStr(sent.ts)
       /\ (reqChanged = "none" /\ MiddlewareRan) => verdict # MissingHeaders

(***************************************************************************)
(* C29.  In the checkout extension, once every overlapping                 *)
(* checkServiceability call has completed, the serviceabilityResult on     *)
(* display is the response to the most recently started check: an earlier  *)
(* check's response never overwrites a later one's.                        *)
(***************************************************************************)
C29_LatestCheckDisplayed ==
    (calls = {} /\ serviceabilityResult # Null)
    => serviceabilityResult.of = started

(***************************************************************************)
(* C30.  In the checkout extension, checkingServiceability is never false  *)
(* while a serviceability request is in flight, and serviceabilityResult   *)
(* and serviceabilityError are never both non-null.                        *)
(***************************************************************************)
C30_FlagAndExclusiveOutcome ==
    /\ calls # {} => checkingServiceability
    /\ ~(serviceabilityResult # Null /\ serviceabilityError # Null)

=============================================================================
